---- MODULE Spec2Model ----
(***************************************************************************)
(* Extension identity and dependency resolution utilities                  *)
(* (vs/platform/extensionManagement/common/extensionManagementUtil.ts).    *)
(*                                                                         *)
(* Strings are sequences of one-character strings, so that comparison,     *)
(* lower-casing, formatting and regular-expression matching are computed   *)
(* character by character.                                                 *)
(***************************************************************************)
EXTENDS Integers, Sequences, FiniteSets, TLC

(***************************************************************************)
(* Characters and strings                                                  *)
(***************************************************************************)
UpperLetters == <<"A","B","C","D","E","F","G","H","I","J","K","L","M",
                  "N","O","P","Q","R","S","T","U","V","W","X","Y","Z">>

LowerLetters == <<"a","b","c","d","e","f","g","h","i","j","k","l","m",
                  "n","o","p","q","r","s","t","u","v","w","x","y","z">>

Digits == {"0","1","2","3","4","5","6","7","8","9"}

\* The characters '.' of a regular expression does not match.
LineTerminators == {"\n", "\r"}

\* The value of an absent optional property (uuid, extensionDependencies):
\* a sequence no string equals, since a character is one-character long.
Undefined == <<"undefined">>

IsUpper(c) == \E i \in 1..26 : UpperLetters[i] = c

IsLower(c) == \E i \in 1..26 : LowerLetters[i] = c

LetterIndex(c) == CHOOSE i \in 1..26 : UpperLetters[i] = c \/ LowerLetters[i] = c

\* Character order: only the relative order of the characters matters.
\* '-' < '.' < digits < upper-case letters < lower-case letters (ASCII).
CharCode(c) ==
    IF c = "\n" THEN 10
    ELSE IF c = "\r" THEN 13
    ELSE IF c = "-" THEN 45
    ELSE IF c = "." THEN 46
    ELSE IF c \in Digits THEN 48 + (CHOOSE d \in 0..9 : <<"0","1","2","3","4","5","6","7","8","9">>[d + 1] = c)
    ELSE IF IsUpper(c) THEN 64 + LetterIndex(c)
    ELSE IF IsLower(c) THEN 96 + LetterIndex(c)
    ELSE 127

ToLowerChar(c) == IF IsUpper(c) THEN LowerLetters[LetterIndex(c)] ELSE c

toLocaleLowerCase(s) == [i \in 1..Len(s) |-> ToLowerChar(s[i])]

\* Upper-case folding of a character code, as compareIgnoreCase does for
\* ASCII letters.
FoldCode(c) == IF IsLower(c) THEN CharCode(c) - 32 ELSE CharCode(c)

RECURSIVE compareSubstringIgnoreCase(_, _, _)
compareSubstringIgnoreCase(a, b, i) ==
    IF i <= Len(a) /\ i <= Len(b)
    THEN IF a[i] = b[i] \/ FoldCode(a[i]) = FoldCode(b[i])
         THEN compareSubstringIgnoreCase(a, b, i + 1)
         ELSE FoldCode(a[i]) - FoldCode(b[i])
    ELSE IF Len(a) < Len(b) THEN -1
    ELSE IF Len(a) > Len(b) THEN 1
    ELSE 0

compareIgnoreCase(a, b) == compareSubstringIgnoreCase(a, b, 1)

(***************************************************************************)
(* areSameExtensions                                                       *)
(***************************************************************************)
\* JavaScript truthiness of an optional string: undefined and "" are falsy.
Truthy(s) == s # Undefined /\ s # <<>>

areSameExtensionsAsym(a, b) ==
    IF Truthy(a.uuid)
    THEN a.uuid = b.uuid
    ELSE IF a.id = b.id THEN TRUE
    ELSE compareIgnoreCase(a.id, b.id) = 0

areSameExtensionsIdFirst(a, b) ==
    IF a.id = b.id THEN TRUE
    ELSE IF Truthy(a.uuid) /\ Truthy(b.uuid) THEN a.uuid = b.uuid
    ELSE compareIgnoreCase(a.id, b.id) = 0

areSameExtensionsCaseSensitive(a, b) ==
    IF Truthy(a.uuid) /\ Truthy(b.uuid)
    THEN a.uuid = b.uuid
    ELSE a.id = b.id

areSameExtensions(a, b) ==
    IF Truthy(a.uuid) /\ Truthy(b.uuid)
    THEN a.uuid = b.uuid
    ELSE IF a.id = b.id THEN TRUE
    ELSE compareIgnoreCase(a.id, b.id) = 0

\* The identifier literal { id } of getExtensionDependencies: no uuid.
IdOnly(id) == [id |-> id, uuid |-> Undefined]

(***************************************************************************)
(* State                                                                   *)
(***************************************************************************)
VARIABLES
    installedExtensions,  \* getExtensionDependencies: the installed array
    extension,            \* getExtensionDependencies: the root extension
    extensions,           \* getExtensionDependencies: the pending-id queue
    dependencies,         \* getExtensionDependencies: the result list
    pc,                   \* getExtensionDependencies: "off" | "idle" | "loop" | "done"
    groupInput,           \* groupByExtension: the extensions parameter
    byExtension,          \* groupByExtension: the groups built so far
    cursor,               \* groupByExtension: items consumed by the for loop
    gpc,                  \* groupByExtension: "off" | "loop" | "done"
    idA,                  \* areSameExtensions: first identifier
    idB,                  \* areSameExtensions: second identifier
    called,               \* areSameExtensions: the calls made so far
    sameAB,               \* result of areSameExtensions(idA, idB)
    sameBA,               \* result of areSameExtensions(idB, idA)
    sameAA,               \* result of areSameExtensions(idA, idA)
    key,                  \* ExtensionKey: the key to format, NullKey for none
    text,                 \* ExtensionKey: the string to parse
    parsed,               \* ExtensionKey: the result of parse
    kpc                   \* ExtensionKey: "off" | "key" | "text" | "parsed"

depVars == <<installedExtensions, extension, extensions, dependencies, pc>>

groupVars == <<groupInput, byExtension, cursor, gpc>>

sameVars == <<idA, idB, called, sameAB, sameBA, sameAA>>

keyVars == <<key, text, parsed, kpc>>

vars == <<depVars, groupVars, sameVars, keyVars>>

\* The parts of the state a specification of another function leaves unused.
DependenciesOff ==
    /\ installedExtensions = <<>>
    /\ extension = [identifier |-> [id |-> <<>>, uuid |-> Undefined],
                    manifest |-> [extensionDependencies |-> Undefined]]
    /\ extensions = <<>>
    /\ dependencies = <<>>
    /\ pc = "off"

GroupOff ==
    /\ groupInput = <<>>
    /\ byExtension = <<>>
    /\ cursor = 0
    /\ gpc = "off"

SameOff ==
    /\ idA = [id |-> <<>>, uuid |-> Undefined]
    /\ idB = [id |-> <<>>, uuid |-> Undefined]
    /\ called = {}
    /\ sameAB = FALSE
    /\ sameBA = FALSE
    /\ sameAA = FALSE

\* null, as a key: the result of a failed parse.
NullKey == [id |-> Undefined, version |-> Undefined, targetPlatform |-> Undefined]

KeyOff ==
    /\ key = NullKey
    /\ text = <<>>
    /\ parsed = NullKey
    /\ kpc = "off"

(***************************************************************************)
(* Inputs of getExtensionDependencies                                      *)
(***************************************************************************)
MaxInstalled == 3

MaxDeclared == 3

A_ONE == <<"a", ".", "o", "n", "e">>

A_TWO == <<"a", ".", "t", "w", "o">>

A_THREE == <<"a", ".", "t", "h", "r", "e", "e">>

UUID_1 == <<"u", "1">>

UUID_2 == <<"u", "2">>

\* The identifiers an extension of the model may carry, in a fixed order.
\* The second and the third share their id and differ in their uuid.
IdentifierPool ==
    << [id |-> A_ONE, uuid |-> Undefined],
       [id |-> A_TWO, uuid |-> UUID_1],
       [id |-> A_TWO, uuid |-> UUID_2],
       [id |-> A_THREE, uuid |-> Undefined] >>

\* The ids a manifest may declare as dependencies.
DependencyIds == {A_ONE, A_TWO, A_THREE}

RECURSIVE SeqsOfLen(_, _)
SeqsOfLen(S, n) ==
    IF n = 0 THEN {<<>>}
    ELSE {<<x>> \o s : x \in S, s \in SeqsOfLen(S, n - 1)}

SeqsUpTo(S, n) == UNION {SeqsOfLen(S, k) : k \in 0..n}

\* The declared dependency lists of n manifests, at most `budget` ids in all.
RECURSIVE Declarations(_, _)
Declarations(n, budget) ==
    IF n = 0 THEN {<<>>}
    ELSE UNION { {<<l>> \o rest : rest \in Declarations(n - 1, budget - Len(l))}
                 : l \in SeqsUpTo(DependencyIds, budget) }

\* The strictly increasing index sequences of length n into 1..m.
RECURSIVE Increasing(_, _, _)
Increasing(n, lo, m) ==
    IF n = 0 THEN {<<>>}
    ELSE UNION { {<<i>> \o rest : rest \in Increasing(n - 1, i + 1, m)}
                 : i \in lo..m }

Extension(identifier, declared) ==
    [identifier |-> identifier,
     manifest |-> [extensionDependencies |->
                      IF declared = <<>> THEN Undefined ELSE declared]]

RemoveAt(s, i) == [j \in 1..(Len(s) - 1) |-> IF j < i THEN s[j] ELSE s[j + 1]]

(***************************************************************************)
(* getExtensionDependencies                                                *)
(***************************************************************************)
\* extension.manifest.extensionDependencies?.slice(0) ?? []
DeclaredDependencies(e) ==
    IF e.manifest.extensionDependencies = Undefined
    THEN <<>>
    ELSE e.manifest.extensionDependencies

\* dependencies.every(e => !areSameExtensions(e.identifier, { id }))
NotYetAcceptedNever(deps, id) == TRUE

NotYetAccepted(deps, id) ==
    \A i \in 1..Len(deps) : ~areSameExtensions(deps[i].identifier, IdOnly(id))

\* installedExtensions.filter(e => areSameExtensions(e.identifier, { id }))
MatchingInstalled(installed, id) ==
    SelectSeq(installed, LAMBDA e : areSameExtensions(e.identifier, IdOnly(id)))

\* ext.length === 1
IsResolvedAny(ext) == Len(ext) >= 1

IsResolved(ext) == Len(ext) = 1

\* extensions.push(...ext[0].manifest.extensionDependencies?.slice(0) ?? [])
PushDeclaredFront(queue, e) == DeclaredDependencies(e) \o queue

PushDeclared(queue, e) == queue \o DeclaredDependencies(e)

InitDependencies ==
    /\ \E n \in 1..MaxInstalled :
       \E idx \in Increasing(n, 1, Len(IdentifierPool)) :
       \E decl \in Declarations(n, MaxDeclared) :
       \E root \in 1..n :
       \E rootInstalled \in BOOLEAN :
          LET all == [i \in 1..n |-> Extension(IdentifierPool[idx[i]], decl[i])]
          IN /\ extension = all[root]
             /\ installedExtensions = IF rootInstalled THEN all ELSE RemoveAt(all, root)
    /\ extensions = <<>>
    /\ dependencies = <<>>
    /\ pc = "idle"
    /\ GroupOff
    /\ SameOff
    /\ KeyOff

\* const dependencies = []; const extensions = extension.manifest...slice(0) ?? [];
Enter ==
    /\ pc = "idle"
    /\ dependencies' = <<>>
    /\ extensions' = DeclaredDependencies(extension)
    /\ pc' = "loop"
    /\ UNCHANGED <<installedExtensions, extension>>
    /\ UNCHANGED <<groupVars, sameVars, keyVars>>

\* One iteration of while (extensions.length).
Shift ==
    /\ pc = "loop"
    /\ Len(extensions) > 0
    /\ LET id == Head(extensions)
           rest == Tail(extensions)
       IN IF Truthy(id) /\ NotYetAccepted(dependencies, id)
          THEN LET ext == MatchingInstalled(installedExtensions, id)
               IN IF IsResolved(ext)
                  THEN /\ dependencies' = Append(dependencies, ext[1])
                       /\ extensions' = PushDeclared(rest, ext[1])
                  ELSE /\ dependencies' = dependencies
                       /\ extensions' = rest
          ELSE /\ dependencies' = dependencies
               /\ extensions' = rest
    /\ UNCHANGED <<installedExtensions, extension, pc>>
    /\ UNCHANGED <<groupVars, sameVars, keyVars>>

\* The loop condition fails: return dependencies.
Return ==
    /\ pc = "loop"
    /\ Len(extensions) = 0
    /\ pc' = "done"
    /\ UNCHANGED <<installedExtensions, extension, extensions, dependencies>>
    /\ UNCHANGED <<groupVars, sameVars, keyVars>>

NextDependencies == Enter \/ Shift \/ Return

Spec == InitDependencies /\ [][NextDependencies]_vars

\* The loop is sequential code: a step that can be taken is taken.
FairSpec == Spec /\ WF_vars(NextDependencies)

(***************************************************************************)
(* Claims about getExtensionDependencies                                   *)
(***************************************************************************)
InResult(e) == \E i \in 1..Len(dependencies) : dependencies[i] = e

\* The number of installed extensions whose identifier matches { id }.
MatchCount(id) ==
    Cardinality({i \in 1..Len(installedExtensions) :
                    areSameExtensions(installedExtensions[i].identifier, IdOnly(id))})

IdMatches(e, id) == areSameExtensions(e.identifier, IdOnly(id))

\* C1: the root extension is never an element of the returned list, also
\* when it is installed and reachable through a dependency cycle.
RootNeverInResult == pc = "done" => ~InResult(extension)

\* The cycle of C1: a.one declares a.two, a.two declares a.one, both
\* installed, resolved from a.one.
CycleInput ==
    /\ Len(installedExtensions) = 2
    /\ installedExtensions[1] = extension
    /\ extension.identifier.id = A_ONE
    /\ DeclaredDependencies(extension) = <<A_TWO>>
    /\ installedExtensions[2].identifier.id = A_TWO
    /\ DeclaredDependencies(installedExtensions[2]) = <<A_ONE>>

\* C1, the example: the cycle resolved from a.one returns exactly [a.two].
CycleReturnsOnlyTwo ==
    (pc = "done" /\ CycleInput) => dependencies = <<installedExtensions[2]>>

\* The work the loop still has to do: the queued ids, and for every installed
\* extension not accepted yet, its acceptance and the ids it would enqueue.
RECURSIVE RankFrom(_)
RankFrom(i) ==
    IF i > Len(installedExtensions) THEN 0
    ELSE (IF InResult(installedExtensions[i])
          THEN 0
          ELSE 1 + Len(DeclaredDependencies(installedExtensions[i])))
         + RankFrom(i + 1)

Rank == Len(extensions) + RankFrom(1)

\* C2: getExtensionDependencies terminates: every iteration of the loop
\* strictly decreases a natural-number measure, an id that matches an
\* accepted result entry is dropped and enqueues nothing, and the call
\* eventually returns.
DependenciesTerminate ==
    /\ <>(pc = "done")
    /\ [][ (pc = "loop" /\ pc' = "loop") =>
              /\ Rank' < Rank
              /\ (\E i \in 1..Len(dependencies) :
                      IdMatches(dependencies[i], Head(extensions)))
                  => (extensions' = Tail(extensions) /\ dependencies' = dependencies)
         ]_vars

\* C2 witness: the call on the cycle a.one -> a.two -> a.one returned.
CycleTerminated == pc = "done" /\ CycleInput

\* The extension whose declared ids were enqueued j-th: the root for 0.
Source(j) == IF j = 0 THEN extension ELSE dependencies[j]

DeclaresAt(j, e) ==
    {p \in 1..Len(DeclaredDependencies(Source(j))) :
        IdMatches(e, DeclaredDependencies(Source(j))[p])}

Min(S) == CHOOSE x \in S : \A y \in S : x <= y

\* The first enqueuer of the k-th result entry, and the first position of a
\* matching id in that enqueuer's declared list.
Parent(k) == Min({j \in 0..(k - 1) : DeclaresAt(j, dependencies[k]) # {}})

Position(k) == Min(DeclaresAt(Parent(k), dependencies[k]))

ChainInput ==
    /\ Len(installedExtensions) = 3
    /\ installedExtensions[1] = extension
    /\ extension.identifier.id = A_ONE
    /\ DeclaredDependencies(extension) = <<A_TWO>>
    /\ installedExtensions[2].identifier.id = A_TWO
    /\ DeclaredDependencies(installedExtensions[2]) = <<A_THREE>>
    /\ installedExtensions[3].identifier.id = A_THREE
    /\ DeclaredDependencies(installedExtensions[3]) = <<>>

\* C7: the result is in breadth-first discovery order: every entry was
\* declared by the root or by an earlier entry, entries are ordered by their
\* first enqueuer and then by declaration order within it, and the chain
\* a.one -> a.two -> a.three resolved from a.one gives [a.two, a.three].
BreadthFirstOrder ==
    /\ \A k \in 1..Len(dependencies) :
          \E j \in 0..(k - 1) : DeclaresAt(j, dependencies[k]) # {}
    /\ \A k1, k2 \in 1..Len(dependencies) :
          k1 < k2 =>
             \/ Parent(k1) < Parent(k2)
             \/ Parent(k1) = Parent(k2) /\ Position(k1) < Position(k2)
    /\ (pc = "done" /\ ChainInput) =>
          dependencies = <<installedExtensions[2], installedExtensions[3]>>

\* C7 witness: the chain has been resolved, and so has an input where the
\* second declared id of the root is accepted before the first one's own
\* dependency.
BreadthFirstReached ==
    /\ pc = "done"
    /\ Len(dependencies) = 3
    /\ Parent(1) = 0 /\ Parent(2) = 0 /\ Parent(3) = 1

ChainResolved == pc = "done" /\ ChainInput

\* C8: an id is accepted only when exactly one installed extension matches
\* it; with zero or several matches the id is dropped, nothing is added to
\* the result, nothing is enqueued, and the loop goes on.
OnlyUniqueMatchAccepted ==
    /\ [](\A i \in 1..Len(dependencies) :
             MatchCount(dependencies[i].identifier.id) = 1)
    /\ [](pc = "loop" => ENABLED NextDependencies)
    /\ [][ (pc = "loop" /\ pc' = "loop") =>
              /\ MatchCount(Head(extensions)) # 1 =>
                    (dependencies' = dependencies /\ extensions' = Tail(extensions))
              /\ dependencies' # dependencies =>
                    /\ MatchCount(Head(extensions)) = 1
                    /\ Len(dependencies') = Len(dependencies) + 1
                    /\ IdMatches(dependencies'[Len(dependencies')], Head(extensions))
         ]_vars

\* C8 witness: the root declares a.two, two installed extensions carry the id
\* a.two with different uuids, and the call returned without either of them.
AmbiguousDropped ==
    /\ pc = "done"
    /\ \E p \in 1..Len(DeclaredDependencies(extension)) :
          DeclaredDependencies(extension)[p] = A_TWO
    /\ \E i, j \in 1..Len(installedExtensions) :
          /\ installedExtensions[i].identifier.id = A_TWO
          /\ installedExtensions[j].identifier.id = A_TWO
          /\ installedExtensions[i].identifier.uuid # installedExtensions[j].identifier.uuid
    /\ \A i \in 1..Len(dependencies) : ~IdMatches(dependencies[i], A_TWO)
    /\ Len(dependencies) > 0

\* The positions of the installed array that hold the extension e.
InstalledAt(e) == {i \in 1..Len(installedExtensions) : installedExtensions[i] = e}

\* C11: at every iteration and on return, every result entry is an installed
\* extension, no installed extension is in the result twice, and the result
\* is never longer than the installed array; an entry enters the result only
\* as an installed extension that matches the id just dequeued and was not
\* in the result before, and entries never leave or move.
ResultWithinInstalled ==
    /\ [](/\ \A k \in 1..Len(dependencies) : InstalledAt(dependencies[k]) # {}
          /\ \A k1, k2 \in 1..Len(dependencies) :
                dependencies[k1] = dependencies[k2] => k1 = k2
          /\ Len(dependencies) <= Len(installedExtensions))
    /\ [][ pc = "loop" =>
              \/ dependencies' = dependencies
              \/ /\ Len(extensions) > 0
                 /\ Len(dependencies') = Len(dependencies) + 1
                 /\ SubSeq(dependencies', 1, Len(dependencies)) = dependencies
                 /\ LET e == dependencies'[Len(dependencies')]
                    IN /\ InstalledAt(e) # {}
                       /\ IdMatches(e, Head(extensions))
                       /\ ~InResult(e)
         ]_vars

\* C11 witness: the call returned with every one of three installed
\* extensions in the result, each once.
AllInstalledInResult ==
    /\ pc = "done"
    /\ Len(installedExtensions) = 3
    /\ Len(dependencies) = 3

(***************************************************************************)
(* areSameExtensions, called on a pair of identifiers                      *)
(***************************************************************************)
A_B == <<"a", ".", "b">>

A_B_UC == <<"A", ".", "B">>

C_D == <<"c", ".", "d">>

\* uuid values: absent, the empty string (falsy), and two uuids.
UuidValues == {Undefined, <<>>, UUID_1, UUID_2}

Identifiers == [id : {A_B, A_B_UC, C_D}, uuid : UuidValues]

InitSame ==
    /\ idA \in Identifiers
    /\ idB \in Identifiers
    /\ called = {}
    /\ sameAB = FALSE
    /\ sameBA = FALSE
    /\ sameAA = FALSE
    /\ DependenciesOff
    /\ GroupOff
    /\ KeyOff

CallAB ==
    /\ "ab" \notin called
    /\ sameAB' = areSameExtensions(idA, idB)
    /\ called' = called \cup {"ab"}
    /\ UNCHANGED <<idA, idB, sameBA, sameAA, depVars, groupVars, keyVars>>

CallBA ==
    /\ "ba" \notin called
    /\ sameBA' = areSameExtensions(idB, idA)
    /\ called' = called \cup {"ba"}
    /\ UNCHANGED <<idA, idB, sameAB, sameAA, depVars, groupVars, keyVars>>

CallAA ==
    /\ "aa" \notin called
    /\ sameAA' = areSameExtensions(idA, idA)
    /\ called' = called \cup {"aa"}
    /\ UNCHANGED <<idA, idB, sameAB, sameBA, depVars, groupVars, keyVars>>

NextSame == CallAB \/ CallBA \/ CallAA

SpecSame == InitSame /\ [][NextSame]_vars

\* An identifier carries a uuid when the property is a non-empty string.
CarriesUuid(x) == x.uuid # Undefined /\ x.uuid # <<>>

EqualIgnoringCase(s, t) == toLocaleLowerCase(s) = toLocaleLowerCase(t)

\* C5: with a uuid on both sides the result is exactly the equality of the
\* uuids, whatever the ids; otherwise it is true iff the ids are equal
\* exactly or equal ignoring case.
UuidDecidesElseId ==
    "ab" \in called =>
        IF CarriesUuid(idA) /\ CarriesUuid(idB)
        THEN sameAB = (idA.uuid = idB.uuid)
        ELSE sameAB = (idA.id = idB.id \/ EqualIgnoringCase(idA.id, idB.id))

\* C5 witness: equal uuids with different ids compared equal.
SameUuidDifferentId ==
    /\ "ab" \in called
    /\ CarriesUuid(idA) /\ idA.uuid = idB.uuid
    /\ ~EqualIgnoringCase(idA.id, idB.id)
    /\ sameAB

\* C6: areSameExtensions(a, a) is true and areSameExtensions(a, b) equals
\* areSameExtensions(b, a).
ReflexiveSymmetric ==
    /\ "aa" \in called => sameAA
    /\ ({"ab", "ba"} \subseteq called) => sameAB = sameBA

\* C6 witness: both orders were called on a pair where only one side carries
\* a uuid and the ids differ in case only, and the identifier was compared
\* with itself.
BothOrdersCalled ==
    /\ called = {"ab", "ba", "aa"}
    /\ CarriesUuid(idA) /\ ~CarriesUuid(idB)
    /\ idA.id # idB.id
    /\ sameAB /\ sameBA /\ sameAA

(***************************************************************************)
(* groupByExtension                                                        *)
(***************************************************************************)
MaxItems == 3

GroupIdentifiers == [id : {A_B, A_B_UC, C_D}, uuid : {Undefined, UUID_1, UUID_2}]

\* The items are distinct objects: each carries its position in the input.
\* getExtensionIdentifier(t) is t.identifier.
GroupInputs ==
    UNION { { [i \in 1..n |-> [identifier |-> ids[i], index |-> i]]
              : ids \in [1..n -> GroupIdentifiers] }
            : n \in 0..MaxItems }

\* findGroup: the index of the first group with a member that is
\* areSameExtensions to the item, 0 for null.
findGroup(groups, item) ==
    LET hits == {g \in 1..Len(groups) :
                    \E m \in 1..Len(groups[g]) :
                        areSameExtensions(groups[g][m].identifier, item.identifier)}
    IN IF hits = {} THEN 0 ELSE CHOOSE g \in hits : \A h \in hits : g <= h

\* if (group) { group.push(extension) } else { byExtension.push([extension]) }
PlaceItemAlwaysNew(groups, g, item) == Append(groups, <<item>>)

PlaceItem(groups, g, item) ==
    IF g # 0
    THEN [groups EXCEPT ![g] = Append(@, item)]
    ELSE Append(groups, <<item>>)

InitGroup ==
    /\ groupInput \in GroupInputs
    /\ byExtension = <<>>
    /\ cursor = 0
    /\ gpc = "loop"
    /\ DependenciesOff
    /\ SameOff
    /\ KeyOff

\* One iteration of for (const extension of extensions).
GroupStep ==
    /\ gpc = "loop"
    /\ cursor < Len(groupInput)
    /\ LET item == groupInput[cursor + 1]
       IN byExtension' = PlaceItem(byExtension, findGroup(byExtension, item), item)
    /\ cursor' = cursor + 1
    /\ UNCHANGED <<groupInput, gpc, depVars, sameVars, keyVars>>

\* return byExtension
GroupReturn ==
    /\ gpc = "loop"
    /\ cursor = Len(groupInput)
    /\ gpc' = "done"
    /\ UNCHANGED <<groupInput, byExtension, cursor, depVars, sameVars, keyVars>>

NextGroup == GroupStep \/ GroupReturn

SpecGroup == InitGroup /\ [][NextGroup]_vars

\* The hash-based grouping the design allows: one bucket per key, the key
\* being the uuid when present and the lower-cased id otherwise; buckets in
\* first-seen order, members in insertion order.
HashKey(item) ==
    IF Truthy(item.identifier.uuid)
    THEN item.identifier.uuid
    ELSE toLocaleLowerCase(item.identifier.id)

RECURSIVE HashGroupFrom(_, _, _, _)
HashGroupFrom(items, i, keys, buckets) ==
    IF i > Len(items) THEN buckets
    ELSE LET k == HashKey(items[i])
             hit == {b \in 1..Len(keys) : keys[b] = k}
         IN IF hit = {}
            THEN HashGroupFrom(items, i + 1, Append(keys, k), Append(buckets, <<items[i]>>))
            ELSE LET b == CHOOSE x \in hit : TRUE
                 IN HashGroupFrom(items, i + 1, keys,
                                  [buckets EXCEPT ![b] = Append(@, items[i])])

HashGroup(items) == HashGroupFrom(items, 1, <<>>, <<>>)

(***************************************************************************)
(* Claims about groupByExtension                                           *)
(***************************************************************************)
SameItems(i, j) ==
    areSameExtensions(groupInput[i].identifier, groupInput[j].identifier)

\* The identity classes of the input: the sets of items that are
\* areSameExtensions to one item.
IdentityClasses ==
    { {j \in 1..Len(groupInput) : SameItems(i, j)} : i \in 1..Len(groupInput) }

SameIsTransitive ==
    \A i, j, k \in 1..Len(groupInput) :
        (SameItems(i, j) /\ SameItems(j, k)) => SameItems(i, k)

Places(item) ==
    {<<g, m>> \in (1..Len(byExtension)) \X (1..Len(groupInput)) :
        m <= Len(byExtension[g]) /\ byExtension[g][m] = item}

\* Every consumed item is in exactly one place of one group, and the groups
\* hold nothing else and are not empty.
IsPartition ==
    /\ \A i \in 1..cursor : Cardinality(Places(groupInput[i])) = 1
    /\ \A g \in 1..Len(byExtension) :
          /\ Len(byExtension[g]) > 0
          /\ \A m \in 1..Len(byExtension[g]) :
                \E i \in 1..cursor : byExtension[g][m] = groupInput[i]

\* C3 as stated: the groups partition the input and there are as many groups
\* as identity classes, for every input list.
GroupsAreIdentityClasses ==
    gpc = "done" =>
        /\ IsPartition
        /\ Len(byExtension) = Cardinality(IdentityClasses)

\* C3 as amended: the groups partition the input, for every input list; there
\* are as many groups as identity classes whenever areSameExtensions is
\* transitive on the identifiers of the input.
GroupsPartitionInput ==
    /\ IsPartition
    /\ (gpc = "done" /\ SameIsTransitive) =>
          Len(byExtension) = Cardinality(IdentityClasses)

\* C3 witness: three items, with and without uuid, grouped into two groups.
MixedInputGrouped ==
    /\ gpc = "done"
    /\ Len(groupInput) = 3
    /\ Len(byExtension) = 2
    /\ SameIsTransitive
    /\ \E i, j \in 1..3 :
          Truthy(groupInput[i].identifier.uuid) /\ ~Truthy(groupInput[j].identifier.uuid)

AllOrNoneCarryUuid ==
    \/ \A i \in 1..Len(groupInput) : Truthy(groupInput[i].identifier.uuid)
    \/ \A i \in 1..Len(groupInput) : ~Truthy(groupInput[i].identifier.uuid)

\* C10 as stated: the hash-based grouping gives the groups of
\* groupByExtension, same members and same orders, for every input list.
HashGroupingEquivalent == gpc = "done" => byExtension = HashGroup(groupInput)

\* C10 as amended: the two groupings agree on every input list in which
\* either every item carries a uuid or none does.
HashGroupingEquivalentUniform ==
    (gpc = "done" /\ AllOrNoneCarryUuid) => byExtension = HashGroup(groupInput)

\* C10 witness: a list without uuids grouped two ids that differ in case.
CaseVariantsGrouped ==
    /\ gpc = "done"
    /\ AllOrNoneCarryUuid
    /\ Len(byExtension) = 2
    /\ \E g \in 1..2 :
          /\ Len(byExtension[g]) = 2
          /\ byExtension[g][1].identifier.id # byExtension[g][2].identifier.id
          /\ ~Truthy(byExtension[g][1].identifier.uuid)

(***************************************************************************)
(* ExtensionKey: constructor, parse, toString, equals                      *)
(***************************************************************************)
\* TargetPlatform values (vs/platform/extensions/common/extensions).
UNDEFINED == <<"u", "n", "d", "e", "f", "i", "n", "e", "d">>

UNKNOWN == <<"u", "n", "k", "n", "o", "w", "n">>

WIN32_X64 == <<"w", "i", "n", "3", "2", "-", "x", "6", "4">>

DARWIN_ARM64 == <<"d", "a", "r", "w", "i", "n", "-", "a", "r", "m", "6", "4">>

TargetPlatforms == {UNDEFINED, UNKNOWN, WIN32_X64, DARWIN_ARM64}

\* constructor(identifier, version, targetPlatform = TargetPlatform.UNDEFINED)
NewExtensionKey(identifier, version, targetPlatform) ==
    [id |-> identifier.id,
     version |-> version,
     targetPlatform |-> IF targetPlatform = Undefined THEN UNDEFINED ELSE targetPlatform]

\* `${this.id}-${this.version}${this.targetPlatform !== UNDEFINED ? `-${this.targetPlatform}` : ''}`
toString(k) ==
    k.id \o <<"-">> \o k.version
         \o (IF k.targetPlatform # UNDEFINED THEN <<"-">> \o k.targetPlatform ELSE <<>>)

\* An ExtensionKey passed as an IExtensionIdentifier: it has an id and no uuid.
KeyIdentifier(k) == [id |-> k.id, uuid |-> Undefined]

\* equals(o): o instanceof ExtensionKey, same extension, version, platform.
equals(k, o) ==
    IF o = NullKey THEN FALSE
    ELSE /\ areSameExtensions(KeyIdentifier(k), KeyIdentifier(o))
         /\ k.version = o.version
         /\ k.targetPlatform = o.targetPlatform

\* \d+ from position k, greedy: the index of the last digit of the run,
\* k - 1 when there is none.
RECURSIVE DigitRunEnd(_, _)
DigitRunEnd(s, k) ==
    IF k <= Len(s) /\ s[k] \in Digits THEN DigitRunEnd(s, k + 1) ELSE k - 1

\* \d+\.\d+\.\d+ from position k: the index of its last character, 0 when it
\* does not match. Each run is followed by a non-digit, so no shorter run
\* can match either.
VersionEnd(s, k) ==
    LET r1 == DigitRunEnd(s, k)
    IN IF r1 < k \/ r1 + 1 > Len(s) \/ s[r1 + 1] # "." THEN 0
       ELSE LET r2 == DigitRunEnd(s, r1 + 2)
            IN IF r2 < r1 + 2 \/ r2 + 1 > Len(s) \/ s[r2 + 1] # "." THEN 0
               ELSE LET r3 == DigitRunEnd(s, r2 + 2)
                    IN IF r3 < r2 + 2 THEN 0 ELSE r3

\* (-(.+))?$ after position j
TailMatchesUnanchored(s, j) == TRUE

TailMatches(s, j) ==
    \/ j = Len(s)
    \/ /\ j + 2 <= Len(s)
       /\ s[j + 1] = "-"
       /\ \A p \in (j + 2)..Len(s) : s[p] \notin LineTerminators

FirstDot(s) ==
    IF \E i \in 1..Len(s) : s[i] = "."
    THEN CHOOSE i \in 1..Len(s) : s[i] = "." /\ \A j \in 1..(i - 1) : s[j] # "."
    ELSE 0

\* ^([^.]+\..+) ending at position i
GroupOneMatches(s, i) ==
    /\ FirstDot(s) >= 2
    /\ i >= FirstDot(s) + 1
    /\ \A p \in (FirstDot(s) + 1)..i : s[p] \notin LineTerminators

\* The ends of group 1 for which the whole pattern matches.
GroupOneEnds(s) ==
    {i \in 1..(Len(s) - 1) :
        /\ GroupOneMatches(s, i)
        /\ s[i + 1] = "-"
        /\ VersionEnd(s, i + 2) # 0
        /\ TailMatches(s, VersionEnd(s, i + 2))}

\* .+ is greedy: the match found first is the one with the longest group 1.
GroupOneEndLazy(s) == CHOOSE i \in GroupOneEnds(s) : \A j \in GroupOneEnds(s) : i <= j

GroupOneEnd(s) == CHOOSE i \in GroupOneEnds(s) : \A j \in GroupOneEnds(s) : i >= j

\* ExtensionKeyRegex.exec(key): the groups 1, 2 and 4, or null.
NoMatch == [matched |-> FALSE, g1 |-> Undefined, g2 |-> Undefined, g4 |-> Undefined]

ExtensionKeyRegexExec(s) ==
    IF GroupOneEnds(s) = {} THEN NoMatch
    ELSE LET i == GroupOneEnd(s)
             j == VersionEnd(s, i + 2)
         IN [matched |-> TRUE,
             g1 |-> SubSeq(s, 1, i),
             g2 |-> SubSeq(s, i + 2, j),
             g4 |-> IF j = Len(s) THEN Undefined ELSE SubSeq(s, j + 2, Len(s))]

\* static parse(key)
parse(s) ==
    LET matches == ExtensionKeyRegexExec(s)
    IN IF matches.matched /\ Truthy(matches.g1) /\ Truthy(matches.g2)
       THEN NewExtensionKey([id |-> matches.g1], matches.g2,
                            IF Truthy(matches.g4) THEN matches.g4 ELSE Undefined)
       ELSE NullKey

(***************************************************************************)
(* Inputs of the ExtensionKey operations                                   *)
(***************************************************************************)
MaxIdLen == 3

MaxText == 5

KeyAlphabet == {"a", ".", "-", "1", "\n"}

PUB_NAME == <<"p", "u", "b", ".", "n", "a", "m", "e">>

NOT_A_VERSION == <<"n", "o", "t", "-", "a", "-", "v", "e", "r", "s", "i", "o", "n">>

\* An id that itself ends like a version.
A_B_1_0_0 == <<"a", ".", "b", "-", "1", ".", "0", ".", "0">>

KeyIds ==
    (SeqsUpTo(KeyAlphabet, MaxIdLen) \ {<<>>}) \cup {PUB_NAME, A_B_1_0_0, A_B_UC}

VersionRuns == {<<"1">>, <<"2", "0">>}

Versions == {a \o <<".">> \o b \o <<".">> \o c : a, b, c \in VersionRuns}

Keys ==
    {NewExtensionKey([id |-> i], v, t) : i \in KeyIds, v \in Versions, t \in TargetPlatforms}

\* The strings one edit away from s: a character removed, replaced or added.
Edits(s) ==
    {RemoveAt(s, p) : p \in 1..Len(s)}
    \cup {[s EXCEPT ![p] = c] : p \in 1..Len(s), c \in KeyAlphabet}
    \cup {SubSeq(s, 1, p) \o <<c>> \o SubSeq(s, p + 1, Len(s)) : p \in 0..Len(s), c \in KeyAlphabet}

EditedKeys ==
    {NewExtensionKey([id |-> <<"a", ".", "a">>], <<"1", ".", "1", ".", "1">>, t)
        : t \in {UNDEFINED, <<"a">>}}

Texts ==
    SeqsUpTo(KeyAlphabet, MaxText)
    \cup UNION {Edits(toString(k)) : k \in EditedKeys}
    \cup {toString(k) : k \in EditedKeys}
    \cup {PUB_NAME, NOT_A_VERSION}

InitKey ==
    /\ \/ key \in Keys /\ text = <<>> /\ kpc = "key"
       \/ key = NullKey /\ text \in Texts /\ kpc = "text"
    /\ parsed = NullKey
    /\ DependenciesOff
    /\ GroupOff
    /\ SameOff

DoToString ==
    /\ kpc = "key"
    /\ text' = toString(key)
    /\ kpc' = "text"
    /\ UNCHANGED <<key, parsed, depVars, groupVars, sameVars>>

DoParse ==
    /\ kpc = "text"
    /\ parsed' = parse(text)
    /\ kpc' = "parsed"
    /\ UNCHANGED <<key, text, depVars, groupVars, sameVars>>

NextKey == DoToString \/ DoParse

SpecKey == InitKey /\ [][NextKey]_vars

(***************************************************************************)
(* Claims about ExtensionKey                                               *)
(***************************************************************************)
HasDot(s) == \E i \in 1..Len(s) : s[i] = "."

\* Three dot-separated runs of digits.
IsVersion(v) ==
    \E p, q \in 1..Len(v) :
        /\ 1 < p /\ p + 1 < q /\ q < Len(v)
        /\ v[p] = "." /\ v[q] = "."
        /\ \A i \in 1..Len(v) : i \notin {p, q} => v[i] \in Digits

\* publisher.name: a non-empty publisher without '.', a '.', and a non-empty
\* rest without line terminators.
PublisherDotName(s) ==
    \E d \in 2..(Len(s) - 1) :
        /\ s[d] = "."
        /\ \A i \in 1..(d - 1) : s[i] # "."
        /\ \A i \in (d + 1)..Len(s) : s[i] \notin LineTerminators

\* C4 as stated: a key whose id contains a '.' and whose version is three
\* integer runs, with any target platform, survives toString then parse.
RoundTripAnyDottedId ==
    (kpc = "parsed" /\ key # NullKey /\ HasDot(key.id) /\ IsVersion(key.version))
        => (parsed # NullKey /\ equals(parsed, key))

\* C4 as amended: the round trip holds when the id is publisher.name with a
\* non-empty publisher that has no '.', and a non-empty name that has no
\* line terminator.
RoundTripPublisherDotName ==
    (kpc = "parsed" /\ key # NullKey /\ PublisherDotName(key.id) /\ IsVersion(key.version))
        => (parsed # NullKey /\ equals(parsed, key) /\ parsed = key)

\* C4 witness: a key with a platform, whose id ends like a version, came back.
RoundTripDone ==
    /\ kpc = "parsed"
    /\ key # NullKey
    /\ key.id = A_B_1_0_0
    /\ key.targetPlatform = WIN32_X64
    /\ equals(parsed, key)

\* <id>-<major.minor.patch>[-<targetPlatform>] with a '.' inside <id>, for
\* some way of cutting the string.
MatchesPattern(s) ==
    \E i, j \in 1..Len(s) :
        /\ i + 1 < j
        /\ \E p \in 2..(i - 1) : s[p] = "."
        /\ s[i + 1] = "-"
        /\ IsVersion(SubSeq(s, i + 2, j))
        /\ (j = Len(s) \/ (j + 2 <= Len(s) /\ s[j + 1] = "-"))

\* C9: parse is defined on every string, returns null for every string that
\* does not match the pattern, "pub.name" and "not-a-version" included, and
\* gives targetPlatform UNDEFINED for publisher.name-version with no suffix.
ParseNullOnMismatch ==
    /\ kpc = "text" => (parse(text) = NullKey \/ IsVersion(parse(text).version))
    /\ kpc = "parsed" =>
          /\ ~MatchesPattern(text) => parsed = NullKey
          /\ text \in {PUB_NAME, NOT_A_VERSION} => parsed = NullKey
          /\ \A i \in 1..Len(text) :
                (/\ PublisherDotName(SubSeq(text, 1, i))
                 /\ i + 1 < Len(text)
                 /\ text[i + 1] = "-"
                 /\ IsVersion(SubSeq(text, i + 2, Len(text))))
                => /\ parsed # NullKey
                   /\ parsed.id = SubSeq(text, 1, i)
                   /\ parsed.version = SubSeq(text, i + 2, Len(text))
                   /\ parsed.targetPlatform = UNDEFINED

\* C9 witness: "pub.name" was parsed to null.
PubNameParsedNull == kpc = "parsed" /\ text = PUB_NAME /\ parsed = NullKey

\* A string with no platform suffix was parsed to a key.
NoSuffixParsed ==
    /\ kpc = "parsed" /\ key = NullKey
    /\ parsed # NullKey /\ parsed.targetPlatform = UNDEFINED

====
